---- MODULE Spec2Model ----
(***************************************************************************)
(* Loss detection and recovery core of the quicker QUIC endpoint           *)
(* (src/loss-detection/loss.detection.draft19.ts, class QuicLossDetection) *)
(* as a state machine: one action per public entry point (onPacketSent,    *)
(* onAckReceived, the alarm's timeout callback, reset) plus the passing of *)
(* wall-clock time; and the header handler of the same endpoint            *)
(* (src/utilities/handlers/header.handler.ts, class HeaderHandler), one    *)
(* action per handled inbound packet.                                      *)
(*                                                                         *)
(* Times are milliseconds.  The quantities the code holds as floating      *)
(* point milliseconds (smoothedRtt, rttVar, lossTime, alarm durations) are *)
(* held exactly, as integers counting 1/FP of a millisecond.               *)
(***************************************************************************)
EXTENDS Integers, Sequences, FiniteSets, TLC

\* ---------------------------------------------------------------- bounds
\* Largest packet number handed to onPacketSent or carried by an ACK frame.
MaxPN == 1
\* Calls of onPacketSent in one behaviour.
MaxSends == 2
\* Calls of onAckReceived in one behaviour.
MaxAcks == 2
\* Alarm firings without an ACK in between (cryptoCount + ptoCount).
MaxBackoff == 2
\* Steps of the wall clock in one behaviour.
MaxTicks == 1
\* Inbound packets given to HeaderHandler.handle in one behaviour.
MaxHandled == 2
\* Calls of onPacketSent, onAckReceived and handle, taken together, in one
\* behaviour of the specification that exercises every packet type.
MaxCalls == 2

\* ------------------------------------------------------------- constants
kPacketThreshold == 3
kTimeThresholdNum == 9
kTimeThresholdDen == 8
kGranularity == 50
kInitialRTT == 100

\* enum kPacketNumberSpace
Initial == 0
Handshake == 1
ApplicationData == 2
Spaces == <<Initial, Handshake, ApplicationData>>
SpaceSet == {Initial, Handshake, ApplicationData}

RECURSIVE Pow2(_)
Pow2(n) == IF n = 0 THEN 1 ELSE 2 * Pow2(n - 1)

\* Fixed-point units per millisecond.  An RTT sample is a whole number of
\* milliseconds; each later sample divides smoothedRtt by 8 and rttVar by 4
\* once more, and kTimeThreshold divides by 8 once: with at most MaxAcks
\* samples every value is a whole number of 1/FP ms.
FP == 16 * Pow2(3 * MaxAcks)

\* The wall clock is read in steps of the timer granularity.
TickMs == kGranularity

Max(a, b) == IF a >= b THEN a ELSE b
Min(a, b) == IF a <= b THEN a ELSE b
Abs(a) == IF a >= 0 THEN a ELSE 0 - a

\* ---------------------------------------------------------------- inputs
PNs == 0 .. MaxPN
\* PacketType values of the packets the loss detector is handed.
PacketTypes == {"Initial", "Handshake", "Protected1RTT"}
\* EncryptionLevel values of an ACK frame.
EncryptionLevels == {"INITIAL", "HANDSHAKE", "ONE_RTT"}
\* ack_delay values (ms) carried by ACK frames, and the peer's max_ack_delay.
AckDelays == {0, 25}
MaxAckDelays == {25}

\* A packet as far as the loss detector reads it: getPacketType(),
\* getHeader().getPacketNumber(), isRetransmittable().
Packets == [type : PacketTypes, pn : PNs, retransmittable : BOOLEAN]

\* BasePacket.isRetransmittable()
isRetransmittable(packet) == packet.retransmittable
\* BasePacket.isHandshake(): the packet is handshake-level (carries CRYPTO).
isHandshake(packet) == packet.type \in {"Initial", "Handshake"}

RECURSIVE DescSeq(_)
\* The members of a finite set of numbers, largest first.
DescSeq(S) ==
    IF S = {} THEN <<>>
    ELSE LET m == CHOOSE x \in S : \A y \in S : y <= x
         IN <<m>> \o DescSeq(S \ {m})

\* AckFrame: getLargestAcknowledged(), determineAckedPacketNumbers() (the
\* packet numbers of its ranges, from the largest down), getCryptoLevel()
\* and the ack delay.
AckFrames(pns, levels) ==
    { [largest |-> CHOOSE x \in S : \A y \in S : y <= x,
       acked |-> DescSeq(S), level |-> l, delay |-> d] :
      S \in (SUBSET pns) \ {{}}, l \in levels, d \in AckDelays }

\* ----------------------------------------------------------------- state
VARIABLES
    now,                              \* (new Date()).getTime()
    sentPackets,                      \* per space: the records, in key order
    ackElicitingPacketsOutstanding,
    cryptoOutstanding,
    cryptoCount,
    ptoCount,
    timeOfLastSentAckElicitingPacket,
    timeOfLastSentCryptoPacket,
    largestAckedPacket,               \* per space
    lossTime,                         \* per space, 1/FP ms, 0 = unset
    lossDetectionAlarm,               \* [running, duration (1/FP ms)]
    rtt,                              \* the RTTMeasurement
    emitted,                          \* events emitted by the last call
    logged,                           \* errors logged by the last call
    op,                               \* the last call and its arguments
    nSends, nAcks,                    \* calls so far
    idleSinceReset,                   \* reset() was called, no onPacketSent since
    connection,                       \* the Connection the header handler works on
    handled,                          \* the last HeaderHandler.handle call
    nHandled                          \* handle calls so far

ldVars == <<sentPackets, ackElicitingPacketsOutstanding, cryptoOutstanding,
            cryptoCount, ptoCount, timeOfLastSentAckElicitingPacket,
            timeOfLastSentCryptoPacket, largestAckedPacket, lossTime,
            lossDetectionAlarm, rtt, emitted, logged>>
lossVars == <<now, ldVars, op, nSends, nAcks, idleSinceReset>>
hdrVars == <<connection, handled, nHandled>>
vars == <<lossVars, hdrVars>>

\* The loss detector's fields as one value, threaded through its methods.
Cur ==
    [sentPackets |-> sentPackets,
     ackElicitingPacketsOutstanding |-> ackElicitingPacketsOutstanding,
     cryptoOutstanding |-> cryptoOutstanding,
     cryptoCount |-> cryptoCount,
     ptoCount |-> ptoCount,
     timeOfLastSentAckElicitingPacket |-> timeOfLastSentAckElicitingPacket,
     timeOfLastSentCryptoPacket |-> timeOfLastSentCryptoPacket,
     largestAckedPacket |-> largestAckedPacket,
     lossTime |-> lossTime,
     lossDetectionAlarm |-> lossDetectionAlarm,
     rtt |-> rtt,
     emitted |-> <<>>,
     logged |-> <<>>]

Install(s) ==
    /\ sentPackets' = s.sentPackets
    /\ ackElicitingPacketsOutstanding' = s.ackElicitingPacketsOutstanding
    /\ cryptoOutstanding' = s.cryptoOutstanding
    /\ cryptoCount' = s.cryptoCount
    /\ ptoCount' = s.ptoCount
    /\ timeOfLastSentAckElicitingPacket' = s.timeOfLastSentAckElicitingPacket
    /\ timeOfLastSentCryptoPacket' = s.timeOfLastSentCryptoPacket
    /\ largestAckedPacket' = s.largestAckedPacket
    /\ lossTime' = s.lossTime
    /\ lossDetectionAlarm' = s.lossDetectionAlarm
    /\ rtt' = s.rtt
    /\ emitted' = s.emitted
    /\ logged' = s.logged

Emit(s, kind, packets) ==
    [s EXCEPT !.emitted = Append(@, [kind |-> kind, packets |-> packets])]

\* VerboseLogging.error(message)
LogError(s, message) == [s EXCEPT !.logged = Append(@, message)]


\* ------------------------------------------------------ sent-packet maps
\* The keys of one space's map, in Object.keys order (insertion order: the
\* keys are packet numbers as 16-digit hex strings).
Keys(s, space) ==
    [i \in 1 .. Len(s.sentPackets[space]) |-> s.sentPackets[space][i].packet.pn]

\* Position of packet number pn in one space's map, 0 when absent.
IndexOf(s, space, pn) ==
    LET m == s.sentPackets[space]
    IN IF \E i \in 1 .. Len(m) : m[i].packet.pn = pn
       THEN CHOOSE i \in 1 .. Len(m) : m[i].packet.pn = pn
       ELSE 0

Has(s, space, pn) == IndexOf(s, space, pn) # 0
Get(s, space, pn) == s.sentPackets[space][IndexOf(s, space, pn)]

DeleteAt(m, i) == SubSeq(m, 1, i - 1) \o SubSeq(m, i + 1, Len(m))

\* findPacketSpaceFromPacket without the test for an Initial packet.
findPacketSpaceFromPacket_NoInitial(packet) ==
    IF packet.type = "Handshake" THEN Handshake
    ELSE ApplicationData

findPacketSpaceFromPacket(packet) ==
    IF packet.type = "Handshake" THEN Handshake
    ELSE IF packet.type = "Initial" THEN Initial
    ELSE ApplicationData

findPacketSpaceFromAckFrame(frame) ==
    IF frame.level = "HANDSHAKE" THEN Handshake
    ELSE IF frame.level = "INITIAL" THEN Initial
    ELSE ApplicationData

\* removeFromSentPackets without the closing delete: the counters are
\* decremented and the record stays in the map.
removeFromSentPackets_KeepsRecord(s, space, packetNumber) ==
    IF ~Has(s, space, packetNumber) THEN s
    ELSE LET packet == Get(s, space, packetNumber).packet
         IN [s EXCEPT
               !.ackElicitingPacketsOutstanding =
                   IF isRetransmittable(packet) THEN @ - 1 ELSE @,
               !.cryptoOutstanding = IF isHandshake(packet) THEN @ - 1 ELSE @]

removeFromSentPackets(s, space, packetNumber) ==
    IF ~Has(s, space, packetNumber) THEN s
    ELSE LET i == IndexOf(s, space, packetNumber)
             packet == s.sentPackets[space][i].packet
         IN [s EXCEPT
               !.ackElicitingPacketsOutstanding =
                   IF isRetransmittable(packet) THEN @ - 1 ELSE @,
               !.cryptoOutstanding = IF isHandshake(packet) THEN @ - 1 ELSE @,
               !.sentPackets[space] = DeleteAt(@, i)]

\* ----------------------------------------------------------------- alarm
\* Alarm: start(ms), reset(), isRunning().
AlarmReset(s) ==
    [s EXCEPT !.lossDetectionAlarm = [running |-> FALSE, duration |-> 0]]
AlarmStart(s, duration) ==
    [s EXCEPT !.lossDetectionAlarm = [running |-> TRUE, duration |-> duration]]

\* getEarliestLossTime that does not compare a set loss time with the one
\* found so far.
getEarliestLossTime_LastSet(s) ==
    LET t0 == <<s.lossTime[Initial], Initial>>
        step(ts, pnSpace) ==
            IF s.lossTime[pnSpace] # 0
            THEN <<s.lossTime[pnSpace], pnSpace>>
            ELSE ts
    IN step(step(t0, Handshake), ApplicationData)

getEarliestLossTime(s) ==
    LET t0 == <<s.lossTime[Initial], Initial>>
        step(ts, pnSpace) ==
            IF s.lossTime[pnSpace] # 0
               /\ (ts[1] = 0 \/ s.lossTime[pnSpace] < ts[1])
            THEN <<s.lossTime[pnSpace], pnSpace>>
            ELSE ts
    IN step(step(t0, Handshake), ApplicationData)

\* alarmDuration whose crypto retransmission timeout is not doubled per
\* cryptoCount.
alarmDuration_NoCryptoBackoff(s) ==
    LET earliestLoss == getEarliestLossTime(s)[1]
    IN IF s.cryptoOutstanding # 0 THEN
         LET base == IF s.rtt.smoothedRtt = 0
                     THEN kInitialRTT * FP * 2
                     ELSE s.rtt.smoothedRtt * 2
         IN Max(base + s.rtt.maxAckDelay * FP, kGranularity * FP)
       ELSE IF earliestLoss # 0 THEN
         earliestLoss - s.timeOfLastSentAckElicitingPacket * FP
       ELSE
         Max(s.rtt.smoothedRtt + s.rtt.rttVar * 4 + s.rtt.maxAckDelay * FP,
             kGranularity * FP) * Pow2(s.ptoCount)

\* alarmDuration whose probe timeout leaves out max_ack_delay.
alarmDuration_NoMaxAckDelayInProbe(s) ==
    LET earliestLoss == getEarliestLossTime(s)[1]
    IN IF s.cryptoOutstanding # 0 THEN
         LET base == IF s.rtt.smoothedRtt = 0
                     THEN kInitialRTT * FP * 2
                     ELSE s.rtt.smoothedRtt * 2
         IN Max(base + s.rtt.maxAckDelay * FP, kGranularity * FP)
              * Pow2(s.cryptoCount)
       ELSE IF earliestLoss # 0 THEN
         earliestLoss - s.timeOfLastSentAckElicitingPacket * FP
       ELSE
         Max(s.rtt.smoothedRtt + s.rtt.rttVar * 4, kGranularity * FP)
           * Pow2(s.ptoCount)

\* The duration setLossDetectionAlarm computes once ack-eliciting packets are
\* outstanding: crypto retransmission, loss time, or probe timeout.
alarmDuration(s) ==
    LET earliestLoss == getEarliestLossTime(s)[1]
    IN IF s.cryptoOutstanding # 0 THEN
         LET base == IF s.rtt.smoothedRtt = 0
                     THEN kInitialRTT * FP * 2
                     ELSE s.rtt.smoothedRtt * 2
         IN Max(base + s.rtt.maxAckDelay * FP, kGranularity * FP)
              * Pow2(s.cryptoCount)
       ELSE IF earliestLoss # 0 THEN
         earliestLoss - s.timeOfLastSentAckElicitingPacket * FP
       ELSE
         Max(s.rtt.smoothedRtt + s.rtt.rttVar * 4 + s.rtt.maxAckDelay * FP,
             kGranularity * FP) * Pow2(s.ptoCount)

setLossDetectionAlarm(s) ==
    IF s.ackElicitingPacketsOutstanding = 0 THEN AlarmReset(s)
    ELSE IF ~s.lossDetectionAlarm.running
         THEN AlarmStart(s, alarmDuration(s))
         ELSE s

\* ------------------------------------------------------------------- RTT
NoRtt == 0 - 1

\* RTTMeasurement.updateRTT(ackFrame, sentPacket)
updateRTT(r, ackFrame, sentPacket, t) ==
    LET latest == t - sentPacket.time
        minRtt == IF r.minRtt = NoRtt THEN latest ELSE Min(r.minRtt, latest)
        delay == Min(ackFrame.delay, r.maxAckDelay)
        adjusted == IF latest - delay >= minRtt THEN latest - delay ELSE latest
    IN IF r.samples = 0
       THEN [r EXCEPT !.latestRtt = latest, !.minRtt = minRtt,
                      !.smoothedRtt = adjusted * FP,
                      !.rttVar = (adjusted * FP) \div 2,
                      !.samples = 1]
       ELSE [r EXCEPT !.latestRtt = latest, !.minRtt = minRtt,
                      !.rttVar = (3 * @ + Abs(r.smoothedRtt - adjusted * FP)) \div 4,
                      !.smoothedRtt = (7 * @ + adjusted * FP) \div 8,
                      !.samples = @ + 1]

\* updateRtt without the test that the largest acknowledged packet is
\* ack-eliciting.
updateRtt_NoAckElicitingTest(s, ackFrame, t) ==
    LET space == findPacketSpaceFromAckFrame(ackFrame)
    IN IF Has(s, space, ackFrame.largest)
       THEN [s EXCEPT !.rtt = updateRTT(@, ackFrame,
                                         Get(s, space, ackFrame.largest), t)]
       ELSE s

updateRtt(s, ackFrame, t) ==
    LET space == findPacketSpaceFromAckFrame(ackFrame)
    IN IF Has(s, space, ackFrame.largest)
          /\ Get(s, space, ackFrame.largest).isRetransmittable
       THEN [s EXCEPT !.rtt = updateRTT(@, ackFrame,
                                         Get(s, space, ackFrame.largest), t)]
       ELSE s


\* ------------------------------------------------------- loss detection
\* Object.keys(this.sendPackets): sendPackets is the method sendPackets(amount),
\* and a function object has no enumerable own property.
sendPacketsOwnKeys == <<>>

RECURSIVE detectLostLoop(_, _, _, _, _, _, _)
\* The forEach of detectLostPackets from key i on; lost collects lostPackets.
detectLostLoop(s, space, keys, i, lost, lossDelay, lostSendTime) ==
    IF i > Len(keys) THEN [s |-> s, lost |-> lost]
    ELSE
      LET unackedPacketNumber == keys[i]
      IN IF unackedPacketNumber > s.largestAckedPacket[space]
         THEN detectLostLoop(s, space, keys, i + 1, lost, lossDelay, lostSendTime)
         ELSE
           LET unacked == Get(s, space, unackedPacketNumber)
               lostPN == s.largestAckedPacket[space] - kPacketThreshold
           IN IF unacked.time * FP <= lostSendTime \/ unacked.packet.pn <= lostPN
              THEN detectLostLoop(
                       removeFromSentPackets(s, space, unackedPacketNumber),
                       space, keys, i + 1, Append(lost, unacked.packet),
                       lossDelay, lostSendTime)
              ELSE detectLostLoop(
                       [s EXCEPT !.lossTime[space] =
                            IF @ = 0 THEN unacked.time * FP + lossDelay
                            ELSE Min(@, unacked.time * FP + lossDelay)],
                       space, keys, i + 1, lost, lossDelay, lostSendTime)

RECURSIVE lostCryptoLoop(_, _, _, _)
\* lostPackets.forEach of detectLostPackets: the record is looked up again.
lostCryptoLoop(s, space, lost, i) ==
    IF i > Len(lost) THEN s
    ELSE lostCryptoLoop(
             IF Has(s, space, lost[i].pn)
                /\ isHandshake(Get(s, space, lost[i].pn).packet)
             THEN [s EXCEPT !.cryptoOutstanding = @ - 1]
             ELSE s,
             space, lost, i + 1)

detectLostPackets(s, space, t) ==
    LET s0 == [s EXCEPT !.lossTime[space] = 0]
        lossDelay == (kTimeThresholdNum * Max(s.rtt.latestRtt * FP, s.rtt.smoothedRtt))
                        \div kTimeThresholdDen
        lostSendTime == t * FP - lossDelay
        r == detectLostLoop(s0, space, sendPacketsOwnKeys, 1, <<>>,
                            lossDelay, lostSendTime)
    IN IF Len(r.lost) > 0
       THEN lostCryptoLoop(Emit(r.s, "ld-packets-lost", r.lost), space, r.lost, 1)
       ELSE r.s

retransmitPacket(s, sentPacket) ==
    IF isRetransmittable(sentPacket.packet)
    THEN Emit(s, "ld-retransmit-packet", <<sentPacket.packet>>)
    ELSE s

RECURSIVE sendPacketsLoop(_, _, _, _, _, _)
\* The while loop of sendPackets over one space's keys, from key i on.
sendPacketsLoop(s, space, keys, i, sendCount, amount) ==
    IF i > Len(keys) THEN [s |-> s, sendCount |-> sendCount, returned |-> FALSE]
    ELSE
      LET sentPacket == Get(s, space, keys[i])
      IN IF isRetransmittable(sentPacket.packet)
         THEN LET s1 == removeFromSentPackets(retransmitPacket(s, sentPacket),
                                              space, sentPacket.packet.pn)
              IN IF sendCount + 1 = amount
                 THEN [s |-> s1, sendCount |-> sendCount + 1, returned |-> TRUE]
                 ELSE sendPacketsLoop(s1, space, keys, i + 1, sendCount + 1, amount)
         ELSE sendPacketsLoop(s, space, keys, i + 1, sendCount, amount)

RECURSIVE sendPacketsSpaces(_, _, _, _)
sendPacketsSpaces(s, k, sendCount, amount) ==
    IF k > Len(Spaces) THEN s
    ELSE LET r == sendPacketsLoop(s, Spaces[k], Keys(s, Spaces[k]), 1,
                                  sendCount, amount)
         IN IF r.returned THEN r.s
            ELSE sendPacketsSpaces(r.s, k + 1, r.sendCount, amount)

\* sendPackets that never compares sendCount with amount.
sendPackets_NoLimit(s, amount) == sendPacketsSpaces(s, 1, 0, 0)

sendPackets(s, amount) == sendPacketsSpaces(s, 1, 0, amount)
sendTwoPackets(s) == sendPackets(s, 2)

RECURSIVE retransmitHandshakeLoop(_, _, _, _)
retransmitHandshakeLoop(s, space, keys, i) ==
    IF i > Len(keys) THEN s
    ELSE LET sentPacket == Get(s, space, keys[i])
         IN retransmitHandshakeLoop(
                IF isHandshake(sentPacket.packet)
                THEN removeFromSentPackets(retransmitPacket(s, sentPacket),
                                           space, sentPacket.packet.pn)
                ELSE s,
                space, keys, i + 1)

\* retransmitAllUnackedHandshakeData that walks the Initial space only.
retransmitAllUnackedHandshakeData_InitialOnly(s) ==
    retransmitHandshakeLoop(s, Initial, Keys(s, Initial), 1)

retransmitAllUnackedHandshakeData(s) ==
    LET s1 == retransmitHandshakeLoop(s, Initial, Keys(s, Initial), 1)
        s2 == retransmitHandshakeLoop(s1, Handshake, Keys(s1, Handshake), 1)
    IN retransmitHandshakeLoop(s2, ApplicationData, Keys(s2, ApplicationData), 1)

\* onLossDetectionAlarm that sends the two probes after a crypto
\* retransmission as well.
onLossDetectionAlarm_ProbeAlso(s, t) ==
    LET earliestLossTime == getEarliestLossTime(s)[1]
        space == getEarliestLossTime(s)[2]
        s1 == IF s.cryptoOutstanding > 0
              THEN [sendTwoPackets(retransmitAllUnackedHandshakeData(s))
                      EXCEPT !.cryptoCount = @ + 1, !.ptoCount = @ + 1]
              ELSE IF earliestLossTime # 0
              THEN detectLostPackets(s, space, t)
              ELSE [sendTwoPackets(s) EXCEPT !.ptoCount = @ + 1]
    IN setLossDetectionAlarm(s1)

onLossDetectionAlarm(s, t) ==
    LET earliestLossTime == getEarliestLossTime(s)[1]
        space == getEarliestLossTime(s)[2]
        s1 == IF s.cryptoOutstanding > 0
              THEN [retransmitAllUnackedHandshakeData(s)
                      EXCEPT !.cryptoCount = @ + 1]
              ELSE IF earliestLossTime # 0
              THEN detectLostPackets(s, space, t)
              ELSE [sendTwoPackets(s) EXCEPT !.ptoCount = @ + 1]
    IN setLossDetectionAlarm(s1)

\* ------------------------------------------------------------------ ACKs
RECURSIVE foundInSpaces(_, _, _)
\* The inner loop of determineNewlyAckedPackets: the packets numbered
\* packetnumber, one per space that holds one, Initial first.
foundInSpaces(s, packetnumber, k) ==
    IF k > Len(Spaces) THEN <<>>
    ELSE (IF Has(s, Spaces[k], packetnumber)
          THEN <<Get(s, Spaces[k], packetnumber).packet>>
          ELSE <<>>) \o foundInSpaces(s, packetnumber, k + 1)

RECURSIVE ackedPacketsFrom(_, _, _)
ackedPacketsFrom(s, ackedPacketnumbers, i) ==
    IF i > Len(ackedPacketnumbers) THEN <<>>
    ELSE foundInSpaces(s, ackedPacketnumbers[i], 1)
           \o ackedPacketsFrom(s, ackedPacketnumbers, i + 1)

\* determineNewlyAckedPackets with the two loops swapped: space by space,
\* and within a space in the order of the frame.
determineNewlyAckedPackets_SpaceMajor(s, receivedAckFrame) ==
    LET inSpace(space) ==
          LET pns == SelectSeq(receivedAckFrame.acked, LAMBDA pn : Has(s, space, pn))
          IN [i \in 1 .. Len(pns) |-> Get(s, space, pns[i]).packet]
    IN inSpace(Initial) \o inSpace(Handshake) \o inSpace(ApplicationData)

determineNewlyAckedPackets(s, receivedAckFrame) ==
    ackedPacketsFrom(s, receivedAckFrame.acked, 1)

\* onSentPacketAcked with the removal inside the ack-eliciting branch.
onSentPacketAcked_RemoveOnlyAckEliciting(s, sentPacket) ==
    IF isRetransmittable(sentPacket)
    THEN removeFromSentPackets(Emit(s, "ld-packet-acked", <<sentPacket>>),
                               findPacketSpaceFromPacket(sentPacket), sentPacket.pn)
    ELSE s

onSentPacketAcked(s, sentPacket) ==
    LET s1 == IF isRetransmittable(sentPacket)
              THEN Emit(s, "ld-packet-acked", <<sentPacket>>)
              ELSE s
    IN removeFromSentPackets(s1, findPacketSpaceFromPacket(sentPacket), sentPacket.pn)

RECURSIVE ackEach(_, _, _)
ackEach(s, ackedPackets, i) ==
    IF i > Len(ackedPackets) THEN s
    ELSE ackEach(onSentPacketAcked(s, ackedPackets[i]), ackedPackets, i + 1)

\* onAckReceived that resets cryptoCount and ptoCount only when the frame
\* newly acknowledges a packet.
onAckReceived_ResetsOnProgress(s, ackFrame, t) ==
    LET space == findPacketSpaceFromAckFrame(ackFrame)
        s1 == [s EXCEPT !.largestAckedPacket[space] = Max(ackFrame.largest, @)]
        s2 == updateRtt(s1, ackFrame, t)
        newlyAcked == determineNewlyAckedPackets(s2, ackFrame)
        s3 == ackEach(s2, newlyAcked, 1)
        s4 == detectLostPackets(s3, space, t)
        s5 == IF newlyAcked # <<>>
              THEN [s4 EXCEPT !.cryptoCount = 0, !.ptoCount = 0]
              ELSE s4
    IN setLossDetectionAlarm(s5)

\* onAckReceived that stores the frame's largest acknowledged number without
\* comparing it with the one held.
onAckReceived_TakesLargest(s, ackFrame, t) ==
    LET space == findPacketSpaceFromAckFrame(ackFrame)
        s1 == [s EXCEPT !.largestAckedPacket[space] = ackFrame.largest]
        s2 == updateRtt(s1, ackFrame, t)
        s3 == ackEach(s2, determineNewlyAckedPackets(s2, ackFrame), 1)
        s4 == detectLostPackets(s3, space, t)
        s5 == [s4 EXCEPT !.cryptoCount = 0, !.ptoCount = 0]
    IN setLossDetectionAlarm(s5)

onAckReceived(s, ackFrame, t) ==
    LET space == findPacketSpaceFromAckFrame(ackFrame)
        s1 == [s EXCEPT !.largestAckedPacket[space] = Max(ackFrame.largest, @)]
        s2 == updateRtt(s1, ackFrame, t)
        s3 == ackEach(s2, determineNewlyAckedPackets(s2, ackFrame), 1)
        s4 == detectLostPackets(s3, space, t)
        s5 == [s4 EXCEPT !.cryptoCount = 0, !.ptoCount = 0]
    IN setLossDetectionAlarm(s5)

\* ------------------------------------------------------------- sending
\* onPacketSent that stores the record whether or not the packet number is
\* already a key of the map.
onPacketSent_Overwrites(s, basePacket, t) ==
    LET space == findPacketSpaceFromPacket(basePacket)
        sentPacket == [packet |-> basePacket, time |-> t,
                       isRetransmittable |-> isRetransmittable(basePacket)]
        s1 == IF isHandshake(basePacket)
              THEN [s EXCEPT !.cryptoOutstanding = @ + 1,
                             !.timeOfLastSentCryptoPacket = t]
              ELSE s
        s2 == IF isRetransmittable(basePacket)
              THEN [s1 EXCEPT !.ackElicitingPacketsOutstanding = @ + 1,
                              !.timeOfLastSentAckElicitingPacket = t]
              ELSE s1
        s3 == setLossDetectionAlarm(s2)
    IN IF Has(s3, space, basePacket.pn)
       THEN [s3 EXCEPT !.sentPackets[space][IndexOf(s3, space, basePacket.pn)]
                          = sentPacket]
       ELSE [s3 EXCEPT !.sentPackets[space] = Append(@, sentPacket)]

onPacketSent(s, basePacket, t) ==
    LET space == findPacketSpaceFromPacket(basePacket)
        sentPacket == [packet |-> basePacket, time |-> t,
                       isRetransmittable |-> isRetransmittable(basePacket)]
        s1 == IF isHandshake(basePacket)
              THEN [s EXCEPT !.cryptoOutstanding = @ + 1,
                             !.timeOfLastSentCryptoPacket = t]
              ELSE s
        s2 == IF isRetransmittable(basePacket)
              THEN [s1 EXCEPT !.ackElicitingPacketsOutstanding = @ + 1,
                              !.timeOfLastSentAckElicitingPacket = t]
              ELSE s1
        s3 == setLossDetectionAlarm(s2)
    IN IF Has(s3, space, basePacket.pn)
       THEN LogError(s3, "Packet was already in sentPackets buffer! cannot add twice, error!")
       ELSE [s3 EXCEPT !.sentPackets[space] = Append(@, sentPacket)]

reset(s) ==
    [AlarmReset(s) EXCEPT !.sentPackets = [sp \in SpaceSet |-> <<>>]]

\* -------------------------------------------------------- header handler
\* A value that is not set (undefined in the code).
Undefined == 0 - 1
NoError == "none"

EndpointTypes == {"Client", "Server"}
HeaderTypes == {"LongHeader", "ShortHeader", "VersionNegotiationHeader"}
LongHeaderTypes == {"Initial", "Protected0RTT", "Handshake", "Retry"}

\* Versions a long header can carry; the connection starts on the first.
ActiveVersion == "draft-19"
SupportedVersions == {"draft-19", "draft-18"}
HeaderVersions == SupportedVersions \cup {"unsupported"}

\* VersionValidation.validateVersion: the version to continue with, or
\* Undefined when the header's version cannot be negotiated.
NoVersion == "undefined"
validateVersion(connectionVersion, longHeader) ==
    IF longHeader.version \in SupportedVersions THEN longHeader.version
    ELSE NoVersion

\* The packet number bytes of a truncated packet number, most significant
\* byte first, as the sender writes them.
RECURSIVE PnBytes(_, _)
PnBytes(value, size) ==
    IF size = 0 THEN <<>>
    ELSE Append(PnBytes(value \div 256, size - 1), value % 256)

\* VLIE.decodePn: the value of the packet number bytes and their count.
RECURSIVE BytesValue(_)
BytesValue(bytes) ==
    IF bytes = <<>> THEN 0
    ELSE 256 * BytesValue(SubSeq(bytes, 1, Len(bytes) - 1)) + bytes[Len(bytes)]
decodePn(pn) == [value |-> BytesValue(pn), offset |-> Len(pn)]

\* The AEAD's packet number decryption for one key set: the unprotected
\* packet number bytes of the packet.
PnDecrypt(header) == header.pn

\* PacketNumber.adjustNumber: the packet number congruent to the truncated
\* one modulo 2^(8 * size) that is closest to highest + 1, the higher one of
\* two equally close ones.
adjustNumber(highest, truncated, size) ==
    LET window == Pow2(8 * size)
        expected == highest + 1
        base == (expected \div window) * window + (truncated % window)
        candidates == {c \in {base - window, base, base + window} : c >= 0}
    IN CHOOSE c \in candidates :
         \A d \in candidates :
            \/ Abs(c - expected) < Abs(d - expected)
            \/ Abs(c - expected) = Abs(d - expected) /\ c >= d

\* connection.getEncryptionContextByPacketType(type).getPacketNumberSpace()
getPacketNumberSpace(actualPacketType) ==
    IF actualPacketType = "Initial" THEN Initial
    ELSE IF actualPacketType = "Handshake" THEN Handshake
    ELSE ApplicationData

\* handleClientVersion that tests for 0-RTT and the starting handshake state
\* before it tests for an Initial packet.
handleClientVersion_IgnoreFirst(conn, longHeader) ==
    LET negotiatedVersion == validateVersion(conn.version, longHeader)
    IN IF negotiatedVersion = NoVersion
       THEN [version |-> conn.version,
             error |-> IF longHeader.packetType = "Protected0RTT"
                          \/ conn.handshakeState = "SERVER_HELLO"
                       THEN "IGNORE_PACKET_ERROR"
                       ELSE IF longHeader.packetType = "Initial"
                       THEN "VERSION_NEGOTIATION_ERROR"
                       ELSE "PROTOCOL_VIOLATION"]
       ELSE [version |-> negotiatedVersion, error |-> NoError]

handleClientVersion(conn, longHeader) ==
    LET negotiatedVersion == validateVersion(conn.version, longHeader)
    IN IF negotiatedVersion = NoVersion
       THEN [version |-> conn.version,
             error |-> IF longHeader.packetType = "Initial"
                       THEN "VERSION_NEGOTIATION_ERROR"
                       ELSE IF longHeader.packetType = "Protected0RTT"
                               \/ conn.handshakeState = "SERVER_HELLO"
                       THEN "IGNORE_PACKET_ERROR"
                       ELSE "PROTOCOL_VIOLATION"]
       ELSE [version |-> negotiatedVersion, error |-> NoError]

\* handleShortHeader that sets the spin bit whatever the packet's order.
handleShortHeader_IgnoresOrder(conn, shortHeader, highestCurrentPacketNumber) ==
    [conn EXCEPT !.spinBit = IF conn.endpointType = "Client"
                             THEN ~shortHeader.spinBit
                             ELSE shortHeader.spinBit]

handleShortHeader(conn, shortHeader, highestCurrentPacketNumber) ==
    IF highestCurrentPacketNumber
    THEN [conn EXCEPT !.spinBit = IF conn.endpointType = "Client"
                                  THEN ~shortHeader.spinBit
                                  ELSE shortHeader.spinBit]
    ELSE conn

\* The packet type handle derives from the header, which names the AEAD
\* packet number decryption it calls.
actualPacketTypeOf(header) ==
    IF header.headerType = "LongHeader"
    THEN IF header.packetType = "Protected0RTT" THEN "Protected0RTT"
         ELSE IF header.packetType = "Handshake" THEN "Handshake"
         ELSE "Initial"
    ELSE "Protected1RTT"

\* adjustRemotePacketNumber that stores every adjusted number as the highest
\* received one.
adjustRemotePacketNumber_AlwaysSets(conn, header, space, decoded) ==
    IF conn.highestReceivedNumber[space] = Undefined
    THEN [conn |-> [conn EXCEPT !.highestReceivedNumber[space] = decoded.value],
          packetNumber |-> decoded.value,
          highestCurrentPacketNumber |-> TRUE]
    ELSE
      LET adjustedNumber == adjustNumber(conn.highestReceivedNumber[space],
                                         decoded.value, header.packetNumberSize)
      IN [conn |-> [conn EXCEPT !.highestReceivedNumber[space] = adjustedNumber],
          packetNumber |-> adjustedNumber,
          highestCurrentPacketNumber |-> TRUE]

\* adjustRemotePacketNumber that takes the decoded number as the packet
\* number without adjusting it.
adjustRemotePacketNumber_NoAdjust(conn, header, space, decoded) ==
    IF conn.highestReceivedNumber[space] = Undefined
       \/ conn.highestReceivedNumber[space] < decoded.value
    THEN [conn |-> [conn EXCEPT !.highestReceivedNumber[space] = decoded.value],
          packetNumber |-> decoded.value,
          highestCurrentPacketNumber |-> TRUE]
    ELSE [conn |-> conn,
          packetNumber |-> decoded.value,
          highestCurrentPacketNumber |-> FALSE]

\* "adjust remote packet number": the packet number space and the header's
\* packet number after the truncated number was decoded.
adjustRemotePacketNumber(conn, header, space, decoded) ==
    IF conn.highestReceivedNumber[space] = Undefined
    THEN [conn |-> [conn EXCEPT !.highestReceivedNumber[space] = decoded.value],
          packetNumber |-> decoded.value,
          highestCurrentPacketNumber |-> TRUE]
    ELSE
      LET highestReceivedNumber == conn.highestReceivedNumber[space]
          adjustedNumber == adjustNumber(highestReceivedNumber, decoded.value,
                                         header.packetNumberSize)
      IN IF highestReceivedNumber < adjustedNumber
         THEN [conn |-> [conn EXCEPT !.highestReceivedNumber[space] = adjustedNumber],
               packetNumber |-> adjustedNumber,
               highestCurrentPacketNumber |-> TRUE]
         ELSE [conn |-> conn,
               packetNumber |-> adjustedNumber,
               highestCurrentPacketNumber |-> FALSE]

\* handle without the early return for a Version Negotiation header: the
\* header goes on to packet number decryption like a short header.
handle_NoVersionNegotiationReturn(conn, headerOffset) ==
    LET header == headerOffset.header
        gate == IF header.headerType = "LongHeader" /\ conn.endpointType = "Server"
                THEN handleClientVersion(conn, header)
                ELSE [version |-> conn.version, error |-> NoError]
        c1 == [conn EXCEPT !.version = gate.version]
        actualPacketType == actualPacketTypeOf(header)
        decoded == decodePn(PnDecrypt(header))
        space == getPacketNumberSpace(actualPacketType)
        adjusted == adjustRemotePacketNumber(c1, header, space, decoded)
        h1 == [header EXCEPT !.packetNumber = adjusted.packetNumber]
    IN IF gate.error # NoError
       THEN [conn |-> conn, header |-> header, offset |-> headerOffset.offset,
             error |-> gate.error, decrypt |-> "none"]
       ELSE IF header.headerType = "LongHeader"
       THEN [conn |-> adjusted.conn,
             header |-> [h1 EXCEPT !.payloadLength = @ - decoded.offset],
             offset |-> headerOffset.offset - 4 + decoded.offset,
             error |-> NoError, decrypt |-> actualPacketType]
       ELSE [conn |-> IF header.headerType = "ShortHeader"
                      THEN handleShortHeader(adjusted.conn, h1,
                                             adjusted.highestCurrentPacketNumber)
                      ELSE adjusted.conn,
             header |-> h1,
             offset |-> headerOffset.offset - 4 + decoded.offset,
             error |-> NoError, decrypt |-> actualPacketType]

\* handle that tests the outcome of the version gate only after the packet
\* number has been decrypted and the highest received number adjusted.
handle_GateAfterDecode(conn, headerOffset) ==
    LET header == headerOffset.header
        gate == IF header.headerType = "LongHeader" /\ conn.endpointType = "Server"
                THEN handleClientVersion(conn, header)
                ELSE [version |-> conn.version, error |-> NoError]
        c1 == [conn EXCEPT !.version = gate.version]
        actualPacketType == actualPacketTypeOf(header)
        decoded == decodePn(PnDecrypt(header))
        space == getPacketNumberSpace(actualPacketType)
        adjusted == adjustRemotePacketNumber(c1, header, space, decoded)
        h1 == [header EXCEPT !.packetNumber = adjusted.packetNumber]
    IN IF header.headerType = "VersionNegotiationHeader"
       THEN [conn |-> c1, header |-> header, offset |-> headerOffset.offset,
             error |-> NoError, decrypt |-> "none"]
       ELSE IF gate.error # NoError
       THEN [conn |-> adjusted.conn, header |-> header,
             offset |-> headerOffset.offset,
             error |-> gate.error, decrypt |-> actualPacketType]
       ELSE IF header.headerType = "LongHeader"
       THEN [conn |-> adjusted.conn,
             header |-> [h1 EXCEPT !.payloadLength = @ - decoded.offset],
             offset |-> headerOffset.offset - 4 + decoded.offset,
             error |-> NoError, decrypt |-> actualPacketType]
       ELSE [conn |-> handleShortHeader(adjusted.conn, h1,
                                        adjusted.highestCurrentPacketNumber),
             header |-> h1,
             offset |-> headerOffset.offset - 4 + decoded.offset,
             error |-> NoError, decrypt |-> actualPacketType]

\* HeaderHandler.handle: the connection afterwards, the header and offset it
\* returns, the error it throws (NoError: none) and the AEAD packet number
\* decryption it called.
handle(conn, headerOffset) ==
    LET header == headerOffset.header
        gate == IF header.headerType = "LongHeader" /\ conn.endpointType = "Server"
                THEN handleClientVersion(conn, header)
                ELSE [version |-> conn.version, error |-> NoError]
        c1 == [conn EXCEPT !.version = gate.version]
        actualPacketType == actualPacketTypeOf(header)
        decoded == decodePn(PnDecrypt(header))
        space == getPacketNumberSpace(actualPacketType)
        adjusted == adjustRemotePacketNumber(c1, header, space, decoded)
        h1 == [header EXCEPT !.packetNumber = adjusted.packetNumber]
    IN IF gate.error # NoError
       THEN [conn |-> conn, header |-> header, offset |-> headerOffset.offset,
             error |-> gate.error, decrypt |-> "none"]
       ELSE IF header.headerType = "VersionNegotiationHeader"
       THEN [conn |-> c1, header |-> header, offset |-> headerOffset.offset,
             error |-> NoError, decrypt |-> "none"]
       ELSE IF header.headerType = "LongHeader"
       THEN [conn |-> adjusted.conn,
             header |-> [h1 EXCEPT !.payloadLength = @ - decoded.offset],
             offset |-> headerOffset.offset - 4 + decoded.offset,
             error |-> NoError, decrypt |-> actualPacketType]
       ELSE [conn |-> handleShortHeader(adjusted.conn, h1,
                                        adjusted.highestCurrentPacketNumber),
             header |-> h1,
             offset |-> headerOffset.offset - 4 + decoded.offset,
             error |-> NoError, decrypt |-> actualPacketType]

\* No Connection has been constructed yet.
NoConnection ==
    [endpointType |-> "none", version |-> ActiveVersion,
     handshakeState |-> "none", spinBit |-> FALSE,
     highestReceivedNumber |-> [space \in SpaceSet |-> Undefined]]

\* The header of an inbound packet as the parser hands it to handle: the true
\* packet number is not known yet, pn are its packet number bytes.
WireHeader(headerType, packetType, version, spinBit, packetNumber, size) ==
    [headerType |-> headerType, packetType |-> packetType, version |-> version,
     spinBit |-> spinBit, packetNumber |-> Undefined, packetNumberSize |-> size,
     payloadLength |-> 16 + size,
     pn |-> PnBytes(packetNumber % Pow2(8 * size), size)]

\* An inbound packet: the HeaderOffset given to handle, and the full packet
\* number its sender gave it.
Inbound(header, offset, packetNumber) ==
    [header |-> header, offset |-> offset, packetNumber |-> packetNumber]

NoHeader == WireHeader("none", "none", NoVersion, FALSE, 0, 0)
NoHandled ==
    [input |-> Inbound(NoHeader, 0, Undefined), header |-> NoHeader,
     offset |-> 0, error |-> NoError, decrypt |-> "none"]

\* --------------------------------------------------------------- actions
NoPacket == [type |-> "none", pn |-> 0 - 1, retransmittable |-> FALSE]
NoFrame == [largest |-> 0 - 1, acked |-> <<>>, level |-> "none", delay |-> 0]

\* The fields after construction, lossTime apart.
InitExceptLossTime ==
    /\ now = 0
    /\ sentPackets = [sp \in SpaceSet |-> <<>>]
    /\ ackElicitingPacketsOutstanding = 0
    /\ cryptoOutstanding = 0
    /\ cryptoCount = 0
    /\ ptoCount = 0
    /\ timeOfLastSentAckElicitingPacket = 0
    /\ timeOfLastSentCryptoPacket = 0
    /\ largestAckedPacket = [sp \in SpaceSet |-> 0]
    /\ lossDetectionAlarm = [running |-> FALSE, duration |-> 0]
    /\ \E d \in MaxAckDelays :
         rtt = [latestRtt |-> 0, smoothedRtt |-> 0, rttVar |-> 0,
                minRtt |-> NoRtt, maxAckDelay |-> d, samples |-> 0]
    /\ emitted = <<>>
    /\ logged = <<>>
    /\ op = [name |-> "new", packet |-> NoPacket, frame |-> NoFrame]
    /\ nSends = 0 /\ nAcks = 0
    /\ idleSinceReset = FALSE
    /\ connection = NoConnection
    /\ handled = NoHandled
    /\ nHandled = 0

Init ==
    /\ InitExceptLossTime
    /\ lossTime = [sp \in SpaceSet |-> 0]

\* Time passes between two calls.
Tick ==
    /\ now < MaxTicks * TickMs
    /\ now' = now + TickMs
    /\ UNCHANGED <<ldVars, op, nSends, nAcks, idleSinceReset, hdrVars>>

OnPacketSentUpTo(packets, most) ==
    /\ nSends < most
    /\ \E basePacket \in packets :
         /\ Install(onPacketSent(Cur, basePacket, now))
         /\ op' = [name |-> "onPacketSent", packet |-> basePacket, frame |-> NoFrame]
    /\ nSends' = nSends + 1
    /\ idleSinceReset' = FALSE
    /\ UNCHANGED <<now, nAcks, hdrVars>>

OnAckReceivedOf(frames) ==
    /\ nAcks < MaxAcks
    /\ \E ackFrame \in frames :
         /\ Install(onAckReceived(Cur, ackFrame, now))
         /\ op' = [name |-> "onAckReceived", packet |-> NoPacket, frame |-> ackFrame]
    /\ nAcks' = nAcks + 1
    /\ UNCHANGED <<now, nSends, idleSinceReset, hdrVars>>

OnPacketSentOf(packets) == OnPacketSentUpTo(packets, MaxSends)

OnPacketSent == OnPacketSentOf(Packets)
OnAckReceived == OnAckReceivedOf(AckFrames(PNs, EncryptionLevels))

\* The listener registered by setLossDetectionAlarm runs when the alarm times
\* out: it resets the alarm and calls onLossDetectionAlarm.
AlarmTimeout ==
    /\ lossDetectionAlarm.running
    /\ cryptoCount + ptoCount < MaxBackoff
    /\ Install(onLossDetectionAlarm(AlarmReset(Cur), now))
    /\ op' = [name |-> "onLossDetectionAlarm", packet |-> NoPacket, frame |-> NoFrame]
    /\ UNCHANGED <<now, nSends, nAcks, idleSinceReset, hdrVars>>

Reset ==
    /\ op.name # "reset"
    /\ Install(reset(Cur))
    /\ op' = [name |-> "reset", packet |-> NoPacket, frame |-> NoFrame]
    /\ idleSinceReset' = TRUE
    /\ UNCHANGED <<now, nSends, nAcks, hdrVars>>

Next == Tick \/ OnPacketSent \/ OnAckReceived \/ AlarmTimeout \/ Reset

Spec == Init /\ [][Next]_vars

\* One packet number space, packet numbers far enough apart for the packet
\* threshold: ack-eliciting 1-RTT packets, and ACK frames whose largest
\* acknowledged packet is outstanding.
LossPNs == 0 .. (kPacketThreshold + MaxPN)
LossPackets == [type : {"Protected1RTT"}, pn : LossPNs, retransmittable : {TRUE}]
OnLossPacketSent == OnPacketSentOf(LossPackets)
OnLossAckReceived ==
    OnAckReceivedOf({f \in AckFrames(LossPNs, {"ONE_RTT"}) :
                        Has(Cur, ApplicationData, f.largest)})

NextLoss == Tick \/ OnLossPacketSent \/ OnLossAckReceived \/ AlarmTimeout \/ Reset

SpecLoss == Init /\ [][NextLoss]_vars

\* One packet number space with one more registration than Spec allows, so
\* that a probe timeout finds more than two candidates: 1-RTT packets,
\* ack-eliciting or not.
ProbePNs == 0 .. (MaxPN + 1)
ProbePackets == [type : {"Protected1RTT"}, pn : ProbePNs, retransmittable : BOOLEAN]
OnProbePacketSent == OnPacketSentUpTo(ProbePackets, MaxSends + 1)
OnProbeAckReceived == OnAckReceivedOf(AckFrames(PNs, {"ONE_RTT"}))

NextProbe == Tick \/ OnProbePacketSent \/ OnProbeAckReceived \/ AlarmTimeout \/ Reset

SpecProbe == Init /\ [][NextProbe]_vars


\* ------------------------------------------------- header handler actions
\* new Connection(remoteInfo, endpointType); the TLS handshake of a server
\* starts in SERVER_HELLO.
NewConnection ==
    /\ connection.endpointType = "none"
    /\ \E endpointType \in EndpointTypes :
         connection' = [NoConnection EXCEPT
                          !.endpointType = endpointType,
                          !.handshakeState = IF endpointType = "Server"
                                             THEN "SERVER_HELLO"
                                             ELSE "CLIENT_HELLO"]
    /\ UNCHANGED <<lossVars, handled, nHandled>>

\* The TLS handshake leaves its starting state.
HandshakeCompletes ==
    /\ connection.handshakeState \in {"CLIENT_HELLO", "SERVER_HELLO"}
    /\ connection' = [connection EXCEPT !.handshakeState = "COMPLETED"]
    /\ UNCHANGED <<lossVars, handled, nHandled>>

\* One inbound packet goes through HeaderHandler.handle.
HandleOne(headerOffset) ==
    /\ LET r == handle(connection, headerOffset)
       IN /\ connection' = r.conn
          /\ handled' = [input |-> headerOffset, header |-> r.header,
                         offset |-> r.offset, error |-> r.error,
                         decrypt |-> r.decrypt]
    /\ nHandled' = nHandled + 1
    /\ UNCHANGED lossVars

\* A constructed connection can be handed packets.
CanHandle == connection.endpointType # "none" /\ nHandled < MaxHandled

HandleShortOf(spinBits, pns, sizes) ==
    /\ CanHandle
    /\ \E spinBit \in spinBits, pn \in pns, size \in sizes :
         HandleOne(Inbound(WireHeader("ShortHeader", "none", NoVersion,
                                      spinBit, pn, size), 5, pn))

HandleLongOf(pns, sizes) ==
    /\ CanHandle
    /\ \E packetType \in LongHeaderTypes, version \in HeaderVersions,
          pn \in pns, size \in sizes :
         HandleOne(Inbound(WireHeader("LongHeader", packetType, version,
                                      FALSE, pn, size), 10, pn))

\* Inbound packets of every header form, with one-byte packet numbers.
HeaderPNs == 0 .. MaxPN
HandleShort == HandleShortOf(BOOLEAN, HeaderPNs, {1})
HandleLong == HandleLongOf(HeaderPNs, {1})
HandleVersionNegotiation ==
    /\ CanHandle
    /\ \E size \in {0} :
         HandleOne(Inbound(WireHeader("VersionNegotiationHeader", "none",
                                      NoVersion, FALSE, 0, size), 5, Undefined))

NextHeader ==
    \/ NewConnection \/ HandshakeCompletes
    \/ HandleShort \/ HandleLong \/ HandleVersionNegotiation

SpecHeader == Init /\ [][NextHeader]_vars

\* Short-header packets whose packet numbers lie around the edges of the
\* reconstruction window of each packet number size.
PnSizes == {1, 2, 3}
PnSamples ==
    (0 .. MaxPN) \cup
    UNION {{w \div 2, w - 2, w + 1, w + (w \div 2) - 1} :
             w \in {Pow2(8 * size) : size \in PnSizes}}
HandleWide == HandleShortOf({FALSE}, PnSamples, PnSizes)

NextReconstruct == NewConnection \/ HandleWide

SpecReconstruct == Init /\ [][NextReconstruct]_vars

\* getEarliestLossTime on every combination of set and unset loss times: the
\* three loss times are drawn from the instants of the clock, 0 being unset,
\* and the alarm, armed by ack-eliciting 1-RTT packets, fires on them.
LossTimes == {k * TickMs * FP : k \in 0 .. (MaxTicks + 1)}
InitEarliest ==
    /\ InitExceptLossTime
    /\ lossTime \in [SpaceSet -> LossTimes]

NextEarliest == OnLossPacketSent \/ AlarmTimeout

SpecEarliest == InitEarliest /\ [][NextEarliest]_vars

\* Every packet type and every encryption level, sent, acknowledged and
\* received by one endpoint.  Retry and Version Negotiation packets carry no
\* frame, so they are not ack-eliciting.
ClassifyTypes == {"Initial", "Handshake", "Protected0RTT", "Protected1RTT",
                  "Retry", "VersionNegotiation"}
ClassifyPackets ==
    {packet \in [type : ClassifyTypes, pn : PNs, retransmittable : BOOLEAN] :
        packet.type \in {"Retry", "VersionNegotiation"}
        => ~packet.retransmittable}
ClassifyLevels == {"INITIAL", "HANDSHAKE", "ZERO_RTT", "ONE_RTT"}

ClassifyBudget == nSends + nAcks + nHandled < MaxCalls

OnClassifyPacketSent == ClassifyBudget /\ OnPacketSentOf(ClassifyPackets)
OnClassifyAckReceived ==
    ClassifyBudget /\ OnAckReceivedOf(AckFrames(PNs, ClassifyLevels))
HandleClassifyShort == ClassifyBudget /\ HandleShort
HandleClassifyLong == ClassifyBudget /\ HandleLong

NextClassify ==
    \/ NewConnection
    \/ OnClassifyPacketSent \/ OnClassifyAckReceived
    \/ HandleClassifyShort \/ HandleClassifyLong

SpecClassify == Init /\ [][NextClassify]_vars

\* ---------------------------------------------------------------- claims
\* Number of records, over the three maps, whose packet is in the set chosen.
CountRecords(chosen) ==
    LET n(space) == Cardinality({i \in 1 .. Len(sentPackets[space]) :
                                   sentPackets[space][i].packet \in chosen})
    IN n(Initial) + n(Handshake) + n(ApplicationData)

\* Every packet any specification registers.
AnyPacket == [type : PacketTypes, pn : 0 .. (kPacketThreshold + MaxPN),
              retransmittable : BOOLEAN]

MapsEmpty == \A space \in SpaceSet : sentPackets[space] = <<>>

\* The step is a completed onAckReceived call (its frame is op'.frame).
AckStep == nAcks' = nAcks + 1 /\ op'.name = "onAckReceived"

Range(seq) == {seq[i] : i \in 1 .. Len(seq)}

\* The events of one kind among the events of a call, in emission order.
EventsOf(events, kind) == SelectSeq(events, LAMBDA e : e.kind = kind)

\* The packets carried by the events of one kind.
EventPackets(events, kind) ==
    UNION {Range(e.packets) : e \in Range(EventsOf(events, kind))}

\* The records held in one space's map.
Records(space) == Range(sentPackets[space])
AllRecords == Records(Initial) \cup Records(Handshake) \cup Records(ApplicationData)

\* C1: at every quiescent point ackElicitingPacketsOutstanding equals the
\* number of records in the three sentPackets maps whose packet is
\* retransmittable (ack-eliciting).
C1_AckElicitingCountMatches ==
    ackElicitingPacketsOutstanding = CountRecords({p \in AnyPacket : isRetransmittable(p)})

\* C2: at every quiescent point the loss-detection alarm is running if and
\* only if ackElicitingPacketsOutstanding > 0.
C2_AlarmArmedIffOutstanding ==
    lossDetectionAlarm.running <=> ackElicitingPacketsOutstanding > 0

\* C3: at every quiescent point cryptoOutstanding equals the number of
\* records in the three sentPackets maps whose packet is a handshake packet.
C3_CryptoCountMatches ==
    cryptoOutstanding = CountRecords({p \in AnyPacket : isHandshake(p)})

\* C4: once onAckReceived has returned, no packet number covered by the ACK
\* frame's ranges is left in the sentPackets map of the frame's space.
C4_AckedPacketsRemoved ==
    op.name = "onAckReceived" =>
        \A pn \in Range(op.frame.acked) :
            ~Has(Cur, findPacketSpaceFromAckFrame(op.frame), pn)

\* C4 witness: an ACK has just acknowledged a registered packet of its own
\* space, ack-eliciting or not, while another packet stays outstanding.
C4_Witness ==
    /\ op.name = "onAckReceived"
    /\ nSends = 2
    /\ Cardinality(AllRecords) = 1
    /\ \E e \in Range(emitted) :
         /\ e.kind = "ld-packet-acked"
         /\ findPacketSpaceFromPacket(e.packets[1])
              = findPacketSpaceFromAckFrame(op.frame)

\* C5: after onAckReceived for space s, every packet of s that was still
\* unacked with packet number <= largestAckedPacket[s] - kPacketThreshold has
\* been removed from sentPackets[s] and reported in a packets-lost event.
C5_PacketThresholdLoss ==
    [][AckStep =>
        LET space == findPacketSpaceFromAckFrame(op'.frame)
        IN \A r \in Records(space) :
             (/\ r.packet.pn \notin Range(op'.frame.acked)
              /\ r.packet.pn <= largestAckedPacket'[space] - kPacketThreshold)
             => /\ r \notin Range(sentPackets'[space])
                /\ r.packet \in EventPackets(emitted', "ld-packets-lost")]_vars

\* loss_delay of the time threshold, in 1/FP ms, from an RTT measurement:
\* 9/8 x max(latest_rtt, smoothed_rtt), floored by the granularity.
ClaimedLossDelay(r) ==
    Max((kTimeThresholdNum * Max(r.latestRtt * FP, r.smoothedRtt))
            \div kTimeThresholdDen,
        kGranularity * FP)

\* C6: when an ACK for space s is processed at time now, every still-unacked
\* packet p of s with now - p.time >= loss_delay is removed from
\* sentPackets[s] and reported in a packets-lost event.
C6_TimeThresholdLoss ==
    [][AckStep =>
        LET space == findPacketSpaceFromAckFrame(op'.frame)
        IN \A r \in Records(space) :
             (/\ r.packet.pn \notin Range(op'.frame.acked)
              /\ (now - r.time) * FP >= ClaimedLossDelay(rtt'))
             => /\ r \notin Range(sentPackets'[space])
                /\ r.packet \in EventPackets(emitted', "ld-packets-lost")]_vars

\* The ack-eliciting packets, of any space, that the ranges of frame cover.
CoveredAckEliciting(frame) ==
    {r.packet : r \in {x \in AllRecords :
                         /\ x.packet.pn \in Range(frame.acked)
                         /\ isRetransmittable(x.packet)}}

\* C7 (events): an ACK emits exactly one packet-acked event for each
\* ack-eliciting packet still in sentPackets that its ranges cover, and none
\* for any other packet.
AckEmitsOncePerCovered ==
    AckStep =>
        LET acked == EventsOf(emitted', "ld-packet-acked")
        IN /\ \A i \in 1 .. Len(acked) : Len(acked[i].packets) = 1
           /\ {acked[i].packets[1] : i \in 1 .. Len(acked)}
                 = CoveredAckEliciting(op'.frame)
           /\ Len(acked) = Cardinality(CoveredAckEliciting(op'.frame))

\* C7 (all covered): when the ACK covers every outstanding packet, the
\* sentPackets maps are empty and the alarm is cancelled when it returns.
AckOfEverythingCancels ==
    (/\ AckStep
     /\ AllRecords # {}
     /\ \A r \in AllRecords : r.packet.pn \in Range(op'.frame.acked))
    => /\ MapsEmpty'
       /\ ~lossDetectionAlarm'.running

\* C7: both parts, for every processed ACK.
C7_AckedOnceAndAlarmCancelled ==
    [][AckEmitsOncePerCovered /\ AckOfEverythingCancels]_vars

\* C8: onAckReceived updates the RTT estimator exactly when the packet numbered
\* ack.largest is still in sentPackets of the ACK's own space and is
\* ack-eliciting; otherwise (a duplicate ACK, an ACK-only packet, a packet of
\* another space) the estimator is left unchanged, as it is by every other call.
C8_RttUpdatedOnlyForLargest ==
    [][IF AckStep
       THEN LET frame == op'.frame
                space == findPacketSpaceFromAckFrame(frame)
            IN IF Has(Cur, space, frame.largest)
                  /\ isRetransmittable(Get(Cur, space, frame.largest).packet)
               THEN /\ rtt'.samples = rtt.samples + 1
                    /\ rtt'.latestRtt = now - Get(Cur, space, frame.largest).time
               ELSE rtt' = rtt
       ELSE rtt' = rtt]_vars

\* C8 witness: a second ACK with the same largest-acknowledged number arrived
\* later than the first, which had produced the only RTT sample.
C8_Witness ==
    /\ op.name = "onAckReceived"
    /\ nAcks = 2
    /\ rtt.samples = 1
    /\ rtt.latestRtt < now
    /\ largestAckedPacket[findPacketSpaceFromAckFrame(op.frame)] = op.frame.largest
    /\ emitted = <<>>

\* Position of packet number pn in the ACK frame's enumeration.
AckPosition(frame, pn) == CHOOSE i \in 1 .. Len(frame.acked) : frame.acked[i] = pn

\* C9: among the events of one processed ACK no packet-acked event follows a
\* packets-lost event, and the packet-acked events come in the order in which
\* the ACK frame enumerates their packet numbers.
C9_AckedBeforeLost ==
    op.name = "onAckReceived" =>
        \A i, j \in 1 .. Len(emitted) :
            i < j =>
              /\ ~(emitted[i].kind = "ld-packets-lost"
                   /\ emitted[j].kind = "ld-packet-acked")
              /\ (emitted[i].kind = "ld-packet-acked"
                  /\ emitted[j].kind = "ld-packet-acked")
                 => /\ emitted[i].packets[1].pn \in Range(op.frame.acked)
                    /\ emitted[j].packets[1].pn \in Range(op.frame.acked)
                    /\ AckPosition(op.frame, emitted[i].packets[1].pn)
                         <= AckPosition(op.frame, emitted[j].packets[1].pn)

\* C9 witness: one ACK has emitted packet-acked events for two packets with
\* different packet numbers.
C9_Witness ==
    /\ op.name = "onAckReceived"
    /\ \E i, j \in 1 .. Len(emitted) :
         /\ i < j
         /\ emitted[i].kind = "ld-packet-acked"
         /\ emitted[j].kind = "ld-packet-acked"
         /\ emitted[i].packets[1].pn # emitted[j].packets[1].pn

\* C10: after reset() all three sentPackets maps are empty, the counters
\* ackElicitingPacketsOutstanding, cryptoOutstanding, cryptoCount and ptoCount
\* are 0, and the alarm is cancelled.
C10_ResetClearsEverything ==
    op.name = "reset" =>
        /\ MapsEmpty
        /\ ackElicitingPacketsOutstanding = 0
        /\ cryptoOutstanding = 0
        /\ cryptoCount = 0
        /\ ptoCount = 0
        /\ ~lossDetectionAlarm.running

\* C11: reset() cancels the alarm and empties the maps of all three spaces,
\* and as long as no packet is registered after it the alarm does not fire and
\* no call emits a retransmit-packet, packets-lost or packet-acked event.
C11_NothingAfterReset ==
    /\ op.name = "reset" => ~lossDetectionAlarm.running /\ MapsEmpty
    /\ idleSinceReset => op.name # "onLossDetectionAlarm" /\ emitted = <<>>

\* C12: every re-arm replaces the pending alarm: after a call that ends in
\* setLossDetectionAlarm with ack-eliciting packets outstanding the alarm is
\* pending and its deadline is the duration computed in that call, never an
\* older duration or mode.
C12_RearmReplacesPending ==
    (/\ op.name \in {"onPacketSent", "onAckReceived", "onLossDetectionAlarm"}
     /\ ackElicitingPacketsOutstanding > 0)
    => /\ lossDetectionAlarm.running
       /\ lossDetectionAlarm.duration = alarmDuration(Cur)

\* A step that arms the alarm: setLossDetectionAlarm started it, either
\* because none was pending or because the pending one had just timed out.
AlarmFires ==
    /\ op'.name = "onLossDetectionAlarm"
    /\ cryptoCount' + ptoCount' = cryptoCount + ptoCount + 1
AlarmArmed ==
    /\ lossDetectionAlarm'.running
    /\ ~lossDetectionAlarm.running \/ AlarmFires

\* C13: when the alarm is armed with crypto packets outstanding its duration
\* is max(2 x (smoothed_rtt, or 100 ms when smoothed_rtt is 0) + max_ack_delay,
\* 50 ms) x 2^crypto_count, so each crypto firing without an ACK doubles it.
C13_CryptoDuration ==
    [][(AlarmArmed /\ cryptoOutstanding' > 0)
       => lossDetectionAlarm'.duration =
            Max(2 * (IF rtt'.smoothedRtt = 0 THEN kInitialRTT * FP
                                            ELSE rtt'.smoothedRtt)
                  + rtt'.maxAckDelay * FP,
                kGranularity * FP) * Pow2(cryptoCount')]_vars

\* The alarm armed in crypto mode after one crypto firing, no RTT sample yet:
\* twice the first duration.
C13_Witness ==
    /\ op.name = "onPacketSent" /\ isHandshake(op.packet)
    /\ cryptoOutstanding > 0 /\ cryptoCount = 1 /\ rtt.samples = 0
    /\ lossDetectionAlarm.running
    /\ lossDetectionAlarm.duration =
         2 * (2 * kInitialRTT + rtt.maxAckDelay) * FP

\* C14: when the alarm is armed with ack-eliciting packets outstanding, no
\* crypto packet outstanding and no loss time set, its duration is
\* max(smoothed_rtt + 4 x rtt_var + max_ack_delay, 50 ms) x 2^pto_count;
\* 225 ms for smoothed_rtt 100, rtt_var 25, max_ack_delay 25, pto_count 0.
C14_ProbeTimeoutDuration ==
    [][/\ (/\ AlarmArmed
           /\ cryptoOutstanding' = 0
           /\ \A space \in SpaceSet : lossTime'[space] = 0)
          => lossDetectionAlarm'.duration =
               Max(rtt'.smoothedRtt + 4 * rtt'.rttVar + rtt'.maxAckDelay * FP,
                   kGranularity * FP) * Pow2(ptoCount')
       /\ alarmDuration([Cur EXCEPT !.cryptoOutstanding = 0,
                                    !.ptoCount = 0,
                                    !.lossTime = [space \in SpaceSet |-> 0],
                                    !.rtt.smoothedRtt = 100 * FP,
                                    !.rtt.rttVar = 25 * FP,
                                    !.rtt.maxAckDelay = 25]) = 225 * FP]_vars

\* The alarm armed in probe-timeout mode from a measured RTT: above the
\* granularity floor.
C14_Witness ==
    /\ op.name = "onPacketSent" /\ ~isHandshake(op.packet)
    /\ cryptoOutstanding = 0 /\ rtt.samples > 0
    /\ lossDetectionAlarm.running
    /\ lossDetectionAlarm.duration > kGranularity * FP
    /\ lossDetectionAlarm.duration =
         (rtt.smoothedRtt + 4 * rtt.rttVar + rtt.maxAckDelay * FP) * Pow2(ptoCount)

\* The packet number space that holds a packet.
SpaceOf(packet) == findPacketSpaceFromPacket(packet)

\* The ack-eliciting records held in the three maps.
ProbeCandidates == {r \in AllRecords : r.isRetransmittable}

\* The alarm fires in probe-timeout mode.
ProbeFires ==
    /\ AlarmFires
    /\ cryptoOutstanding = 0
    /\ \A space \in SpaceSet : lossTime[space] = 0

\* C15: when the alarm fires in probe-timeout mode exactly
\* min(2, number of ack-eliciting packets held) retransmit-packet events are
\* emitted, never more than two, each for a different held ack-eliciting
\* packet, taken from the Initial space before Handshake before
\* ApplicationData, and ptoCount increases by exactly 1.
C15_ProbeSendsAtMostTwo ==
    [][ProbeFires =>
         /\ Len(emitted') = Min(2, Cardinality(ProbeCandidates))
         /\ \A i \in 1 .. Len(emitted') :
              /\ emitted'[i].kind = "ld-retransmit-packet"
              /\ Len(emitted'[i].packets) = 1
              /\ \E r \in ProbeCandidates : r.packet = emitted'[i].packets[1]
              /\ \A j \in 1 .. Len(emitted') :
                    i < j => /\ emitted'[i].packets[1] # emitted'[j].packets[1]
                             /\ SpaceOf(emitted'[i].packets[1])
                                   <= SpaceOf(emitted'[j].packets[1])
              /\ \A r \in ProbeCandidates :
                    r.packet \notin EventPackets(emitted', "ld-retransmit-packet")
                    => SpaceOf(emitted'[i].packets[1]) <= SpaceOf(r.packet)
         /\ ptoCount' = ptoCount + 1]_vars

\* A probe timeout that found three candidates: two retransmitted, one left.
C15_Witness ==
    /\ op.name = "onLossDetectionAlarm" /\ ptoCount = 1
    /\ Len(EventsOf(emitted, "ld-retransmit-packet")) = 2
    /\ ProbeCandidates # {}

\* The alarm fires with crypto packets outstanding.
CryptoFires == AlarmFires /\ cryptoOutstanding > 0

\* The crypto (handshake) records held in the three maps.
CryptoRecords == {r \in AllRecords : isHandshake(r.packet)}

\* C16 as claimed: when the alarm fires with crypto packets outstanding a
\* retransmit-packet event is emitted for every crypto packet held in any of
\* the three spaces, and cryptoCount increases by exactly 1.
C16_EveryCryptoPacketRetransmitted ==
    [][CryptoFires =>
         /\ \A r \in CryptoRecords :
              r.packet \in EventPackets(emitted', "ld-retransmit-packet")
         /\ cryptoCount' = cryptoCount + 1]_vars

\* C16 amended: when the alarm fires with crypto packets outstanding a
\* retransmit-packet event is emitted for every ack-eliciting crypto packet
\* held in any of the three spaces and for no other packet, and cryptoCount
\* increases by exactly 1.
C16_AckElicitingCryptoRetransmitted ==
    [][CryptoFires =>
         /\ \A i \in 1 .. Len(emitted') : emitted'[i].kind = "ld-retransmit-packet"
         /\ EventPackets(emitted', "ld-retransmit-packet")
              = {r.packet : r \in {c \in CryptoRecords : c.isRetransmittable}}
         /\ cryptoCount' = cryptoCount + 1]_vars

\* A crypto firing over two crypto packets, one ack-eliciting and one not:
\* both left the maps, one was retransmitted.
C16_Witness ==
    /\ op.name = "onLossDetectionAlarm" /\ cryptoCount = 1 /\ ptoCount = 0
    /\ nSends = 2 /\ nAcks = 0
    /\ cryptoOutstanding = 0 /\ ackElicitingPacketsOutstanding = 0
    /\ Len(EventsOf(emitted, "ld-retransmit-packet")) = 1

\* The step is a completed HeaderHandler.handle call (recorded in handled').
HandleStep == nHandled' = nHandled + 1

\* The call went through packet number decoding: no error, no Version
\* Negotiation header.
Processed(call) ==
    /\ call.error = NoError
    /\ call.input.header.headerType \in {"LongHeader", "ShortHeader"}

\* The packet number space handle selects for the call's packet.
HandledSpace(call) ==
    getPacketNumberSpace(actualPacketTypeOf(call.input.header))

\* C17: the highest received packet number of each space never decreases: the
\* first packet of the space sets it, and afterwards it changes only when a
\* handled packet of the space has a reconstructed packet number strictly
\* above it, which it then takes.
C17_HighestReceivedNeverDecreases ==
    [][\A space \in SpaceSet :
         LET before == connection.highestReceivedNumber[space]
             after == connection'.highestReceivedNumber[space]
             ofSpace == /\ HandleStep /\ Processed(handled')
                        /\ HandledSpace(handled') = space
         IN /\ before # Undefined => after # Undefined /\ after >= before
            /\ after # before =>
                 /\ ofSpace
                 /\ after = handled'.header.packetNumber
                 /\ before = Undefined \/ after > before
            /\ (ofSpace /\ before = Undefined) =>
                 after # Undefined /\ after = handled'.header.packetNumber]_vars

\* A packet numbered below the highest received one of its space was handled.
C17_Witness ==
    /\ nHandled >= 2 /\ Processed(handled)
    /\ handled.header.packetNumber
         < connection.highestReceivedNumber[HandledSpace(handled)]

C19_SpinBitFollowsHighest ==
    [][(/\ HandleStep /\ Processed(handled')
        /\ handled'.input.header.headerType = "ShortHeader")
       => LET before == connection.highestReceivedNumber[ApplicationData]
              received == handled'.input.header.spinBit
          IN IF before = Undefined \/ handled'.header.packetNumber > before
             THEN connection'.spinBit = IF connection.endpointType = "Client"
                                        THEN ~received ELSE received
             ELSE connection'.spinBit = connection.spinBit]_vars

\* A client that holds the spin bit it set earlier after an out-of-order
\* short-header packet whose bit it would have inverted to FALSE.
C19_Witness ==
    /\ connection.endpointType = "Client"
    /\ Processed(handled) /\ handled.input.header.headerType = "ShortHeader"
    /\ handled.header.packetNumber < connection.highestReceivedNumber[ApplicationData]
    /\ handled.input.header.spinBit /\ connection.spinBit

\* C20: a server that handles a long-header packet whose version cannot be
\* negotiated fails with VERSION_NEGOTIATION_ERROR for an Initial packet,
\* else with IGNORE_PACKET_ERROR for a 0-RTT packet or while the handshake is
\* in the server's starting state, else with PROTOCOL_VIOLATION; no other
\* call fails with one of these errors.
C20_VersionGate ==
    [][HandleStep
       => LET header == handled'.input.header
              gate == /\ connection.endpointType = "Server"
                      /\ header.headerType = "LongHeader"
                      /\ validateVersion(connection.version, header) = NoVersion
          IN handled'.error =
               IF ~gate THEN NoError
               ELSE IF header.packetType = "Initial"
               THEN "VERSION_NEGOTIATION_ERROR"
               ELSE IF header.packetType = "Protected0RTT"
                       \/ connection.handshakeState = "SERVER_HELLO"
               THEN "IGNORE_PACKET_ERROR"
               ELSE "PROTOCOL_VIOLATION"]_vars

\* A server past its starting handshake state rejected a Handshake or Retry
\* packet of an unsupported version.
C20_Witness ==
    /\ connection.endpointType = "Server"
    /\ connection.handshakeState = "COMPLETED"
    /\ handled.error = "PROTOCOL_VIOLATION"

\* C21: a Version Negotiation packet bypasses all processing: handle returns
\* the header and the offset it was given, unchanged, throws nothing, calls no
\* AEAD packet number decryption, and leaves the highest received number of
\* every packet number space, the spin bit and the version of the connection
\* as they were.
C21_VersionNegotiationBypasses ==
    [][(/\ HandleStep
        /\ handled'.input.header.headerType = "VersionNegotiationHeader")
       => /\ handled'.header = handled'.input.header
          /\ handled'.offset = handled'.input.offset
          /\ handled'.error = NoError
          /\ handled'.decrypt = "none"
          /\ \A space \in SpaceSet :
               connection'.highestReceivedNumber[space]
                 = connection.highestReceivedNumber[space]
          /\ connection'.spinBit = connection.spinBit
          /\ connection' = connection]_vars

\* A Version Negotiation packet was handled by a connection that had received
\* a short-header packet and set its spin bit.
C21_Witness ==
    /\ nHandled = 2
    /\ handled.input.header.headerType = "VersionNegotiationHeader"
    /\ connection.highestReceivedNumber[ApplicationData] # Undefined
    /\ connection.spinBit

\* The step is a completed onPacketSent call (its packet is op'.packet).
SendStep == nSends' = nSends + 1 /\ op'.name = "onPacketSent"

\* C22: onPacketSent with a packet number that is already a key of its
\* space's sentPackets map never overwrites the record: the packet and the
\* sent time stored stay those of the first registration, no map changes, and
\* the duplicate is flagged by an error log; a new packet number logs none.
C22_DuplicateNeverOverwrites ==
    [][SendStep =>
         LET space == findPacketSpaceFromPacket(op'.packet)
             pn == op'.packet.pn
         IN IF Has(Cur, space, pn)
            THEN /\ sentPackets' = sentPackets
                 /\ sentPackets'[space][IndexOf(Cur, space, pn)].packet
                      = Get(Cur, space, pn).packet
                 /\ sentPackets'[space][IndexOf(Cur, space, pn)].time
                      = Get(Cur, space, pn).time
                 /\ logged' # <<>>
            ELSE logged' = <<>>]_vars

\* A duplicate registration made later than the first one, of a packet that
\* differs from the one stored.
C22_Witness ==
    /\ op.name = "onPacketSent" /\ logged # <<>>
    /\ LET space == findPacketSpaceFromPacket(op.packet)
       IN /\ Has(Cur, space, op.packet.pn)
          /\ Get(Cur, space, op.packet.pn).time < now
          /\ Get(Cur, space, op.packet.pn).packet # op.packet

\* The step appends a record of packet to the sentPackets map of space and
\* leaves the records the map held where they were.
Recorded(packet, space) ==
    /\ Len(sentPackets'[space]) = Len(sentPackets[space]) + 1
    /\ SubSeq(sentPackets'[space], 1, Len(sentPackets[space])) = sentPackets[space]
    /\ sentPackets'[space][Len(sentPackets'[space])].packet = packet

\* The packet number of the packet is a key of some sentPackets map.
KeyOfSomeSpace(packet) == \E space \in SpaceSet : Has(Cur, space, packet.pn)

C24_RetryAndVersionNegotiationNotRecorded ==
    [][(SendStep /\ op'.packet.type \in {"Retry", "VersionNegotiation"})
       => /\ sentPackets' = sentPackets
          /\ ackElicitingPacketsOutstanding' = ackElicitingPacketsOutstanding
          /\ cryptoOutstanding' = cryptoOutstanding]_vars

\* The smallest member of a non-empty finite set of numbers.
Minimum(S) == CHOOSE x \in S : \A y \in S : x <= y

\* C25: once detectLostPackets has run for space s at the end of an ACK,
\* lossTime[s] is the minimum of sent time + loss_delay over the packets left
\* in sentPackets[s] whose packet number is below largestAckedPacket[s], and 0
\* when there is no such packet.
C25_LossTimeOfSurvivors ==
    op.name = "onAckReceived" =>
        LET space == findPacketSpaceFromAckFrame(op.frame)
            survivors == {r \in Records(space) :
                             r.packet.pn < largestAckedPacket[space]}
        IN lossTime[space] =
             IF survivors = {} THEN 0
             ELSE Minimum({r.time * FP + ClaimedLossDelay(rtt) : r \in survivors})

\* The step is a completed run of the alarm's timeout listener.
AlarmStep ==
    /\ op'.name = "onLossDetectionAlarm"
    /\ now' = now /\ hdrVars' = hdrVars

\* The fields before an alarm firing with a loss time put in for one space,
\* and with the crypto counter given: the input of the dispatch alone.
WithLossTime(space, crypto) ==
    [AlarmReset(Cur) EXCEPT !.lossTime[space] = (now + TickMs) * FP,
                            !.cryptoOutstanding = crypto]

\* C26: every alarm firing takes exactly one action, chosen in this order: a
\* crypto retransmission (cryptoCount + 1, only crypto packets retransmitted)
\* when cryptoOutstanding > 0; else detectLostPackets on the space of the
\* earliest loss time when a loss time is set (no counter changes, no
\* retransmission); else a probe timeout (ptoCount + 1).  Afterwards the alarm
\* is running iff ackElicitingPacketsOutstanding > 0.  The dispatch keeps this
\* order on the same fields with a loss time put in.
C26_AlarmDispatch ==
    [][AlarmStep =>
         /\ IF cryptoOutstanding > 0
            THEN /\ cryptoCount' = cryptoCount + 1 /\ ptoCount' = ptoCount
                 /\ lossTime' = lossTime
                 /\ \A i \in 1 .. Len(emitted') :
                      /\ emitted'[i].kind = "ld-retransmit-packet"
                      /\ isHandshake(emitted'[i].packets[1])
            ELSE IF \E space \in SpaceSet : lossTime[space] # 0
            THEN /\ cryptoCount' = cryptoCount /\ ptoCount' = ptoCount
                 /\ lossTime'[getEarliestLossTime(Cur)[2]] = 0
                 /\ EventsOf(emitted', "ld-retransmit-packet") = <<>>
            ELSE /\ ptoCount' = ptoCount + 1 /\ cryptoCount' = cryptoCount
                 /\ lossTime' = lossTime
                 /\ Len(emitted') <= 2
                 /\ \A i \in 1 .. Len(emitted') :
                      emitted'[i].kind = "ld-retransmit-packet"
         /\ lossDetectionAlarm'.running <=> ackElicitingPacketsOutstanding' > 0
         /\ \A space \in SpaceSet :
              LET lossOnly == onLossDetectionAlarm(WithLossTime(space, 0), now)
                  both == onLossDetectionAlarm(WithLossTime(space, 1), now)
              IN /\ lossOnly.cryptoCount = cryptoCount
                 /\ lossOnly.ptoCount = ptoCount
                 /\ lossOnly.lossTime[space] = 0
                 /\ lossOnly.emitted = <<>>
                 /\ both.cryptoCount = cryptoCount + 1
                 /\ both.ptoCount = ptoCount
                 /\ both.lossTime[space] # 0]_vars

\* The alarm fired in crypto mode and then, the crypto packets gone, in probe
\* timeout mode, and is running again for the packets still outstanding.
C26_Witness ==
    /\ op.name = "onLossDetectionAlarm"
    /\ cryptoCount = 1 /\ ptoCount = 1
    /\ cryptoOutstanding = 0 /\ ackElicitingPacketsOutstanding > 0
    /\ lossDetectionAlarm.running
    /\ emitted # <<>>

\* The spaces whose loss time is set.
SetSpaces == {space \in SpaceSet : lossTime[space] # 0}

\* C27: getEarliestLossTime returns the smallest loss time among the spaces
\* whose loss time is set (not 0) together with a space that holds it, for
\* every combination of set and unset loss times, and <<0, Initial>> when no
\* loss time is set.
C27_EarliestLossTime ==
    LET earliest == getEarliestLossTime(Cur)
    IN IF SetSpaces = {}
       THEN earliest = <<0, Initial>>
       ELSE /\ earliest[2] \in SetSpaces
            /\ earliest[1] = lossTime[earliest[2]]
            /\ \A space \in SetSpaces : earliest[1] <= lossTime[space]

\* The alarm fired on a loss time only, and what it cleared is the loss time
\* of the Handshake space while those of the two other spaces are still set:
\* the Handshake space held the earliest one.
C27_Witness ==
    /\ op.name = "onLossDetectionAlarm"
    /\ cryptoCount = 0 /\ ptoCount = 0
    /\ SetSpaces = {Initial, ApplicationData}
    /\ lossTime[Initial] # lossTime[ApplicationData]

\* C28: every onAckReceived, one that newly acknowledges no packet included,
\* leaves cryptoCount = 0 and ptoCount = 0; any other step changes cryptoCount
\* only by +1, when the alarm fires with crypto packets outstanding, and
\* ptoCount only by +1, when the alarm fires as a probe timeout.
C28_BackoffCounters ==
    [][IF AckStep
       THEN cryptoCount' = 0 /\ ptoCount' = 0
       ELSE /\ cryptoCount' # cryptoCount
                 => /\ AlarmStep /\ cryptoOutstanding > 0
                    /\ cryptoCount' = cryptoCount + 1
            /\ ptoCount' # ptoCount
                 => /\ AlarmStep /\ cryptoOutstanding = 0
                    /\ \A space \in SpaceSet : lossTime[space] = 0
                    /\ ptoCount' = ptoCount + 1]_vars

\* An ACK that acknowledged no packet reset cryptoCount: the alarm, armed
\* after a crypto firing and still pending, carries the doubled duration.
C28_Witness ==
    /\ op.name = "onAckReceived" /\ emitted = <<>>
    /\ cryptoCount = 0 /\ ptoCount = 0
    /\ cryptoOutstanding > 0 /\ ~MapsEmpty
    /\ rtt.samples = 0
    /\ lossDetectionAlarm.running
    /\ lossDetectionAlarm.duration
         = 2 * (2 * kInitialRTT + rtt.maxAckDelay) * FP

\* C29: onAckReceived for space s leaves largestAckedPacket[s] at the larger
\* of its previous value and the frame's largest acknowledged number and
\* leaves that of the two other spaces unchanged; no other call changes
\* largestAckedPacket, so it never decreases in any space.
C29_LargestAckedMonotonic ==
    [][/\ \A space \in SpaceSet :
            largestAckedPacket'[space] >= largestAckedPacket[space]
       /\ IF AckStep
          THEN LET s == findPacketSpaceFromAckFrame(op'.frame)
               IN /\ largestAckedPacket'[s]
                       = Max(largestAckedPacket[s], op'.frame.largest)
                  /\ \A space \in SpaceSet \ {s} :
                       largestAckedPacket'[space] = largestAckedPacket[space]
          ELSE largestAckedPacket' = largestAckedPacket]_vars

\* An ACK whose largest acknowledged number is below the one held for its
\* space arrived after a later one, another space being untouched.
C29_Witness ==
    /\ op.name = "onAckReceived" /\ nAcks = 2
    /\ op.frame.largest
         < largestAckedPacket[findPacketSpaceFromAckFrame(op.frame)]
    /\ \E space \in SpaceSet : largestAckedPacket[space] = 0

\* The records of one space that the ranges of an ACK frame cover.
CoveredIn(space, frame) ==
    {r \in Records(space) : r.packet.pn \in Range(frame.acked)}

\* C30: an ACK frame whose encryption level maps to space s removes packets
\* from sentPackets[s] only: the maps of the other spaces stay as they were,
\* every packet-acked event is for a packet of s, and the two outstanding
\* counters go down by the covered packets of s only.
C30_AckStaysInItsSpace ==
    [][AckStep =>
         LET s == findPacketSpaceFromAckFrame(op'.frame)
             covered == CoveredIn(s, op'.frame)
         IN /\ \A space \in SpaceSet \ {s} :
                 sentPackets'[space] = sentPackets[space]
            /\ \A packet \in EventPackets(emitted', "ld-packet-acked") :
                 findPacketSpaceFromPacket(packet) = s
            /\ ackElicitingPacketsOutstanding' =
                 ackElicitingPacketsOutstanding
                   - Cardinality({r \in covered : r.isRetransmittable})
            /\ cryptoOutstanding' =
                 cryptoOutstanding
                   - Cardinality({r \in covered : isHandshake(r.packet)})]_vars

\* C31: a rejected duplicate registration (onPacketSent with a packet number
\* already a key of its space's map) leaves the loss state as it was:
\* ackElicitingPacketsOutstanding, cryptoOutstanding,
\* timeOfLastSentAckElicitingPacket, timeOfLastSentCryptoPacket and the alarm
\* are unchanged.
C31_DuplicateLeavesStateUnchanged ==
    [][(/\ SendStep
        /\ Has(Cur, findPacketSpaceFromPacket(op'.packet), op'.packet.pn))
       => /\ ackElicitingPacketsOutstanding' = ackElicitingPacketsOutstanding
          /\ cryptoOutstanding' = cryptoOutstanding
          /\ timeOfLastSentAckElicitingPacket' = timeOfLastSentAckElicitingPacket
          /\ timeOfLastSentCryptoPacket' = timeOfLastSentCryptoPacket
          /\ lossDetectionAlarm' = lossDetectionAlarm]_vars

\* C32: with no further onPacketSent or onAckReceived the alarm comes to rest
\* after finitely many firings: every firing removes at least one packet from
\* the sentPackets maps or leaves the alarm cancelled, so the alarm cannot
\* keep firing with nothing to act on, and a firing that leaves the alarm
\* cancelled leaves no ack-eliciting packet in any map.
C32_AlarmQuiescence ==
    [][AlarmStep =>
         IF lossDetectionAlarm'.running
         THEN Cardinality(AllRecords') < Cardinality(AllRecords)
         ELSE ProbeCandidates' = {}]_vars

\* C33: in every reachable state, after any interleaving of onPacketSent,
\* onAckReceived (duplicate and cross-space ACKs included), alarm firings and
\* reset, ackElicitingPacketsOutstanding >= 0 and cryptoOutstanding >= 0: no
\* removal path decrements a counter twice for the same packet.
C33_CountersNeverNegative ==
    /\ ackElicitingPacketsOutstanding >= 0
    /\ cryptoOutstanding >= 0

\* C33 witness: one ack-eliciting crypto packet was registered and two ACK
\* frames were processed; the packet was acknowledged once, so one of the two
\* frames found nothing to remove, and both counters are back at 0.
C33_Witness ==
    /\ op.name = "onAckReceived"
    /\ nSends = 1
    /\ nAcks = 2
    /\ MapsEmpty
    /\ Len(EventsOf(emitted, "ld-packet-acked")) = 1
    /\ isHandshake(emitted[1].packets[1])
    /\ op.frame.largest = emitted[1].packets[1].pn
    /\ ackElicitingPacketsOutstanding = 0
    /\ cryptoOutstanding = 0


\* C34: a handle call that fails at the version gate, with
\* VERSION_NEGOTIATION_ERROR, IGNORE_PACKET_ERROR or PROTOCOL_VIOLATION,
\* leaves the connection as it was: no AEAD packet number decryption is
\* called, and the highest received number of every space, the negotiated
\* version and the spin bit keep their values.
C34_GateFailureChangesNothing ==
    [][(/\ HandleStep
        /\ handled'.error \in {"VERSION_NEGOTIATION_ERROR", "IGNORE_PACKET_ERROR",
                               "PROTOCOL_VIOLATION"})
       => /\ handled'.decrypt = "none"
          /\ connection'.highestReceivedNumber = connection.highestReceivedNumber
          /\ connection'.version = connection.version
          /\ connection'.spinBit = connection.spinBit]_vars

\* C34 witness: a server that had received a short-header packet and set its
\* spin bit rejected a long-header packet at the version gate; the space of
\* the rejected packet has still received nothing.
C34_Witness ==
    /\ nHandled = 2
    /\ connection.endpointType = "Server"
    /\ handled.error # NoError
    /\ handled.input.header.headerType = "LongHeader"
    /\ connection.spinBit
    /\ connection.highestReceivedNumber[ApplicationData] # Undefined
    /\ connection.highestReceivedNumber[HandledSpace(handled)] = Undefined

====
